---------------------------- MODULE Spec2Model ----------------------------
(***************************************************************************)
(* A model of the knowledge-retrieval backend of DimbaPride/neo.           *)
(*                                                                         *)
(* The engine is NeoGamesKnowledge (knowledge_base/neogames_knowledge.py): *)
(* one FAISS vector store, one BM25 index and the list of documents the    *)
(* BM25 index was built over, refreshed by update_knowledge_bases from the *)
(* init task (app.startup -> initialize) and then from the monitor task    *)
(* (_monitor_updates), and read by query / hybrid_search, which the agent's *)
(* tools call (agents/agent_setup.py).                                     *)
(*                                                                         *)
(* Coroutines run on one asyncio event loop: a coroutine is interrupted    *)
(* (by another coroutine, or by cancellation) only where it awaits.  The   *)
(* variable loop names the coroutine that is inside a synchronous section. *)
(* The tools are synchronous functions handed to Tool(func=...) and run by *)
(* AgentExecutor.ainvoke, so a query runs on a worker thread and its steps *)
(* interleave with the synchronous sections of a refresh.                  *)
(***************************************************************************)
EXTENDS Integers, Sequences, FiniteSets, TLC

None == "None"

\* self.vectorstore and self.bm25_index are None or an index over a list
\* of chunks
NoIndex == [none |-> TRUE, docs |-> <<>>]
Index(docs) == [none |-> FALSE, docs |-> docs]

(***************************************************************************)
(* Bounds of the model.                                                    *)
(***************************************************************************)
\* refresh cycles one run goes through: the one of initialize and the
\* monitor's.
MaxCycles == 2
\* distinct page texts among the chunks of an index that a search is
\* tried on
MaxContent == 2
\* chunks the splitter makes of a short and of a long page; a long page
\* is longer than one batch
SmallDoc == 1
BigDoc == 31
\* chunks of an index that a search is tried on, and the largest k asked
MaxIndex == 2
MaxK == 2

(***************************************************************************)
(* Program constants.                                                      *)
(***************************************************************************)
\* create_knowledge_base: batch_size = 30
batch_size == 30
\* the tools of agent_setup.py query with k=5
ToolK == 5

\* KnowledgeSource: two of the eight categories, in the enumeration's
\* order.  "news" has a manual URL (_initialize_manual_urls), "faq" has
\* none and is acquired only when the sitemap lists a faq page.
KnowledgeSource == {"news", "faq"}
SourceOrder == <<"news", "faq">>
HasManualUrl(source) == source = "news"

Contents == 1..MaxContent

\* A Document of load_content: the category it was loaded for
\* (metadata['source']), its text, the number of chunks the splitter makes
\* of it, and when it was loaded (metadata['timestamp']): the number of the
\* refresh cycle, 0 for what an earlier run of the service loaded.
Document(source, content, size, timestamp) ==
    [source |-> source, content |-> content, size |-> size,
     timestamp |-> timestamp]

\* text_splitter.split_documents: the chunks of a document, in order, each
\* with the document's metadata.  A chunk is
\* <<source, content, part, timestamp>>.
SplitDoc(doc) ==
    [p \in 1..doc.size |-> <<doc.source, doc.content, p, doc.timestamp>>]

RECURSIVE SplitDocuments(_)
SplitDocuments(documents) ==
    IF documents = <<>> THEN <<>>
    ELSE SplitDoc(Head(documents)) \o SplitDocuments(Tail(documents))

Range(seq) == {seq[i] : i \in 1..Len(seq)}

Min(a, b) == IF a < b THEN a ELSE b

VARIABLES
    disk,                \* the two files of vectorstore_dir
    vectorstore,         \* self.vectorstore: the docstore's chunks
    bm25_index,          \* self.bm25_index: the corpus it scores
    documents_for_bm25,  \* self.documents_for_bm25
    initPc,              \* the init task of app.startup
    monPc,               \* self._monitor_task
    shutPc,              \* app.shutdown
    loop,                \* the coroutine inside a synchronous section
    refresh,             \* the update_knowledge_bases call in flight
    cycles,              \* refresh cycles started
    crashed,             \* the process was killed
    query,               \* the query on the worker thread
    hist,                \* what is recorded of the run, for the properties
    cabal,               \* a CabalKnowledgeSystem and its initialize call
    chunker,             \* a text splitter and the document it splits
    rankings             \* a NeoGamesRankings: its files and its initialize call

vars == <<disk, vectorstore, bm25_index, documents_for_bm25, initPc, monPc,
          shutPc, loop, refresh, cycles, crashed, query, hist, cabal,
          chunker,
          rankings>>


(***************************************************************************)
(* The persisted snapshot.  FAISS.save_local writes index.faiss and then   *)
(* index.pkl into vectorstore_dir; FAISS.load_local reads both.  A file is *)
(* absent, truncated, or complete with the chunks it covers.               *)
(***************************************************************************)
AbsentFile == [state |-> "absent", docs |-> <<>>]
TruncatedFile == [state |-> "truncated", docs |-> <<>>]
File(docs) == [state |-> "complete", docs |-> docs]

Loadable(d) ==
    /\ d.faiss.state = "complete"
    /\ d.pkl.state = "complete"
    /\ d.faiss.docs = d.pkl.docs

\* a load that takes what it can read of a snapshot that is not whole
LoadLocalUnchecked(d) ==
    IF d.pkl.state = "complete" THEN Index(d.pkl.docs) ELSE NoIndex

\* initialize: FAISS.load_local, and self.vectorstore = None when it raises
LoadLocal(d) == IF Loadable(d) THEN Index(d.pkl.docs) ELSE NoIndex

\* what an earlier run of the service may have left in vectorstore_dir
PriorDocLists ==
    { <<Document("news", 1, SmallDoc, 0), Document("faq", 1, SmallDoc, 0)>> }

InitialDisks ==
    {[faiss |-> AbsentFile, pkl |-> AbsentFile]}
    \cup {[faiss |-> File(SplitDocuments(docs)),
           pkl |-> File(SplitDocuments(docs))] : docs \in PriorDocLists}
    \cup {[faiss |-> TruncatedFile, pkl |-> File(SplitDocuments(docs))] :
            docs \in PriorDocLists}

IdleRefresh ==
    [pc |-> "idle", owner |-> None, i |-> 0,
     sitemap |-> [ok |-> FALSE, faq |-> FALSE],
     all_documents |-> <<>>, splits |-> <<>>, done |-> 0]

IdleQuery ==
    [pc |-> "idle", sources |-> {}, k |-> 0,
     loaded |-> FALSE,          \* the message came after load_local succeeded
     ready |-> FALSE,           \* self.vectorstore was set when it asked
     fault |-> FALSE,           \* a search raised
     searched |-> FALSE,        \* both searches were made
     seenVector |-> <<>>,       \* the docstore similarity_search read
     seenBm25 |-> <<>>,         \* the corpus get_scores scored
     seenDocs |-> <<>>,         \* documents_for_bm25 as it was indexed
     lexical |-> <<>>,          \* bm25_results
     dense |-> <<>>,            \* filtered_semantic
     cabal |-> <<>>,            \* what CabalKnowledgeSystem.query returns
     answer |-> None, docs |-> <<>>]

\* what a cycle loaded for a category: status is "none" (no cycle yet),
\* "skipped" (no entry), "pending", "failed" (load_content returned []) or
\* "loaded"
Acquisition(status, documents) == [status |-> status, documents |-> documents]
NoAcquisition == [s \in KnowledgeSource |-> Acquisition("none", <<>>)]

InitHist ==
    [loaded |-> FALSE,          \* load_local succeeded in initialize
     lastBuild |-> "none",      \* how the last create_knowledge_base ended
     acquired |-> NoAcquisition,\* what the cycle loaded for each category
     lastGood |-> [s \in KnowledgeSource |-> {}],
                                \* the chunks of each category's last
                                \* acquisition that a build indexed
     before |-> [vectorstore |-> NoIndex, bm25_index |-> NoIndex,
                 documents_for_bm25 |-> <<>>,
                 disk |-> [faiss |-> AbsentFile, pkl |-> AbsentFile]],
                                \* the snapshot create_knowledge_base found
     diskAtStart |-> [faiss |-> AbsentFile, pkl |-> AbsentFile],
                                \* vectorstore_dir when the process started
     embedded |-> {}]           \* chunks of batches embedded by a build
                                \* that then failed

(***************************************************************************)
(* NeoGamesRankings: the ranking files under base_dir.  A path is the      *)
(* sequence of its directories and the two parts of its file name,         *)
(* ranking_<name>.json; a file is the number of entries of its 'rankings'. *)
(***************************************************************************)
RankingTypes == <<"power", "guild", "memorial", "war">>

\* CLASS_MAPPING: the 'short' of the first two of the nine classes, by
\* class id
CLASS_MAPPING == <<"GU", "DU">>

\* str.upper and str.lower on the abbreviations in use
upper(str) ==
    CASE str = "gu" -> "GU"
      [] str = "du" -> "DU"
      [] str = "xx" -> "XX"
      [] OTHER -> str

lower(str) ==
    CASE str = "GU" -> "gu"
      [] str = "DU" -> "du"
      [] str = "XX" -> "xx"
      [] OTHER -> str

\* save_ranking_data: the files it writes for a ranking type, a class id
\* (0: class_id is None) and data that is a dict or a list
SavePaths(ranking_type, class_id, is_dict) ==
    LET subfolder == IF class_id # 0
                     THEN lower(CLASS_MAPPING[class_id]) ELSE "general"
        out_dir == IF ranking_type = "power" THEN <<"power", subfolder>>
                   ELSE <<ranking_type>>
    IN  IF ranking_type = "war" /\ is_dict
        THEN {out_dir \o <<"ranking", "roles">>,
              out_dir \o <<"ranking", "weekly">>}
        ELSE IF ranking_type = "power" /\ class_id # 0
             THEN {out_dir \o <<"ranking", lower(CLASS_MAPPING[class_id])>>}
             ELSE {out_dir \o <<"ranking", ranking_type>>}

\* _get_json_path
get_json_path(ranking_type, class_abbr) ==
    IF ranking_type = "power"
    THEN LET subfolder ==
                IF class_abbr # None
                      /\ upper(class_abbr) \in Range(CLASS_MAPPING)
                THEN lower(upper(class_abbr)) ELSE "general"
         IN  <<"power", subfolder, "ranking", subfolder>>
    ELSE <<ranking_type, "ranking", ranking_type>>

ClassAbbrs == {None, "gu", "du", "xx"}

RankingPaths ==
    UNION {SavePaths(ranking_type, class_id, ranking_type = "war") :
            ranking_type \in Range(RankingTypes),
            class_id \in 0..Len(CLASS_MAPPING)}
    \cup {get_json_path(ranking_type, class_abbr) :
            ranking_type \in Range(RankingTypes), class_abbr \in ClassAbbrs}

NoRankingFile == [exists |-> FALSE, rankings |-> 0]

RankingFile(entries) == [exists |-> TRUE, rankings |-> entries]

\* a NeoGamesRankings that was constructed: the files, what they were when
\* the process started, the loop of initialize (the ranking type and the
\* power partition it is at, the types process_ranking was called for,
\* those it raised for, what was saved) and the query asked of it
IdleRankings ==
    [pc |-> "idle", i |-> 1, class_id |-> 0,
     files |-> [path \in RankingPaths |-> NoRankingFile],
     prior |-> [path \in RankingPaths |-> NoRankingFile],
     processed |-> {}, raised |-> {}, saved |-> {},
     asked |-> <<>>, response |-> <<>>]

\* a text splitter at rest: no document given, no chunks made
IdleChunker == [pc |-> "idle", text |-> <<>>, chunks |-> <<>>]

\* the sources of CabalKnowledgeSystem, in the order of its KnowledgeSource
CabalSources == <<"neo_cabal", "mrwormy">>

CabalSource == Range(CabalSources)

\* a CabalKnowledgeSystem: self.vectorstores and the index.faiss of every
\* source as the number of chunks held (0: no store, no file), and the
\* initialize call: its position, the source its loop is at, the chunks
\* in hand and the sizes of the calls made to the embedding provider
NoCabalStores == [source \in CabalSource |-> 0]

IdleCabal ==
    [pc |-> "idle", i |-> 1, chunks |-> 0, calls |-> <<>>, depth |-> 0,
     tried |-> {}, raised |-> {}, vectorstores |-> NoCabalStores, files |-> NoCabalStores]

Init ==
    /\ disk \in InitialDisks
    /\ vectorstore = NoIndex
    /\ bm25_index = NoIndex
    /\ documents_for_bm25 = <<>>
    /\ initPc = "created"
    /\ monPc = "none"
    /\ shutPc = "idle"
    /\ loop = "free"
    /\ refresh = IdleRefresh
    /\ cycles = 0
    /\ crashed = FALSE
    /\ query = IdleQuery
    /\ hist = [InitHist EXCEPT !.diskAtStart = disk]
    /\ cabal = IdleCabal
    /\ chunker = IdleChunker
    /\ rankings = IdleRankings

(***************************************************************************)
(* fetch_sitemap.  The sitemap is fetched or the fetch raises; when it is  *)
(* fetched it lists a faq page or not.  The manual URLs are added inside   *)
(* the try block, so a failed fetch returns no entry for any category.     *)
(***************************************************************************)
SitemapResults == {sm \in [ok : BOOLEAN, faq : BOOLEAN] : sm.faq => sm.ok}

fetch_sitemap(sm, source) ==
    IF ~sm.ok THEN FALSE
    ELSE HasManualUrl(source) \/ (source = "faq" /\ sm.faq)

\* update_knowledge_bases, "if not entries: continue": the next category
\* from position i on that has entries, or 0
NextSource(sm, i) ==
    LET withEntries == {j \in i..Len(SourceOrder) :
                            fetch_sitemap(sm, SourceOrder[j])}
    IN  IF withEntries = {} THEN 0
        ELSE CHOOSE j \in withEntries : \A j2 \in withEntries : j <= j2

\* load_content: the documents of the category, or [] when the loader
\* raises or every page is empty.  The news page is long, the faq page
\* short, and both keep their text from cycle to cycle.
LoadOutcomes(source) ==
    {<<>>, <<Document(source, 1,
                      IF source = "news" THEN BigDoc ELSE SmallDoc,
                      cycles)>>}


(***************************************************************************)
(* create_knowledge_base, in the steps a query thread can see between.     *)
(***************************************************************************)
\* all_splits[i:i + batch_size] for the n-th batch (counted from 0); the
\* first batch of a first build is all_splits[:batch_size]
Batch(splits, n) ==
    SubSeq(splits, n * batch_size + 1, Min((n + 1) * batch_size, Len(splits)))

AddBatchReplacing(store, batch) == Index(batch)

\* FAISS.from_documents(first_batch) when self.vectorstore is None, and
\* self.vectorstore.add_documents(batch), which extends the store that is
\* live, otherwise
AddBatch(store, batch) ==
    IF store.none THEN Index(batch) ELSE Index(store.docs \o batch)

DocstoreDocumentsTail(store) == Tail(store.docs)

\* _prepare_bm25_index: every document of the docstore, in its order
DocstoreDocuments(store) == store.docs

\* the snapshot a build or a query finds
Snapshot ==
    [vectorstore |-> vectorstore, bm25_index |-> bm25_index,
     documents_for_bm25 |-> documents_for_bm25, disk |-> disk]

\* create_knowledge_base without documents, as a build that went on
\* without them would leave the snapshot: the BM25 index made anew of
\* nothing
NoDocumentsRebuilt(snapshot) ==
    [snapshot EXCEPT !.bm25_index = NoIndex, !.documents_for_bm25 = <<>>]

\* create_knowledge_base(documents) when documents is empty: "Nenhum
\* documento para criar base", and it returns
NoDocuments(snapshot) == snapshot

\* the snapshot in memory and on disk after a step
Becomes(snapshot) ==
    /\ vectorstore' = snapshot.vectorstore
    /\ bm25_index' = snapshot.bm25_index
    /\ documents_for_bm25' = snapshot.documents_for_bm25
    /\ disk' = snapshot.disk

\* update_knowledge_bases returns to the coroutine that called it:
\* initialize creates the monitor task and returns to the init task, which
\* sleeps and goes on; _monitor_updates sleeps again
Returned(owner) ==
    /\ refresh' = IdleRefresh
    /\ loop' = "free"
    /\ monPc' = "sleep"
    /\ initPc' = IF owner = "init" THEN "sleep" ELSE initPc

MonitorCreatedEarly(owner, pc) == IF owner = "monitor" THEN "update" ELSE "sleep"

\* the monitor task while a refresh runs: its own refresh, or, during the
\* refresh of initialize, not yet created (asyncio.create_task comes after
\* await self.update_knowledge_bases())
MonitorDuringUpdate(owner, pc) == IF owner = "monitor" THEN "update" ELSE pc

\* update_knowledge_bases up to its first await: fetch_sitemap, and the
\* categories without entries skipped.  With no entry at all it calls
\* create_knowledge_base([]), which returns at "Nenhum documento".
BeginUpdate(owner, sm) ==
    LET j == NextSource(sm, 1)
        acq == [s \in KnowledgeSource |->
                    IF fetch_sitemap(sm, s) THEN Acquisition("pending", <<>>)
                    ELSE Acquisition("skipped", <<>>)]
    IN  /\ cycles' = cycles + 1
        /\ IF j = 0
           THEN /\ hist' = [hist EXCEPT !.acquired = acq,
                                        !.lastBuild = "empty",
                                        !.before = InitHist.before,
                                        !.embedded = {}]
                /\ Becomes(NoDocuments(Snapshot))
                /\ Returned(owner)
           ELSE /\ hist' = [hist EXCEPT !.acquired = acq,
                                        !.lastBuild = "none",
                                        !.before = InitHist.before,
                                        !.embedded = {}]
                /\ refresh' = [IdleRefresh EXCEPT !.pc = "await_load",
                                                  !.owner = owner,
                                                  !.i = j,
                                                  !.sitemap = sm]
                /\ loop' = "free"
                /\ initPc' = IF owner = "init" THEN "update" ELSE initPc
                /\ monPc' = MonitorDuringUpdate(owner, monPc)
                /\ UNCHANGED <<disk, vectorstore, bm25_index,
                               documents_for_bm25>>
        /\ UNCHANGED <<rankings, chunker, cabal, shutPc, crashed, query>>

\* initialize, up to update_knowledge_bases: the load of the persisted
\* snapshot
InitializeLoad ==
    /\ ~crashed
    /\ initPc = "created"
    /\ loop = "free"
    /\ shutPc = "idle"
    /\ vectorstore' = LoadLocal(disk)
    /\ initPc' = "loaded"
    /\ loop' = "init"
    /\ hist' = [hist EXCEPT
            !.loaded = Loadable(disk),
            !.lastGood = [s \in KnowledgeSource |->
                IF Loadable(disk)
                THEN {c \in Range(disk.pkl.docs) : c[1] = s} ELSE {}]]
    /\ UNCHANGED <<rankings, chunker, cabal, disk, bm25_index, documents_for_bm25, monPc, shutPc,
                   refresh, cycles, crashed, query>>

\* initialize: await self.update_knowledge_bases()
InitializeUpdate ==
    /\ ~crashed
    /\ initPc = "loaded"
    /\ loop = "init"
    /\ \E sm \in SitemapResults : BeginUpdate("init", sm)

\* _monitor_updates: the sleep of six hours is over
MonitorWake ==
    /\ ~crashed
    /\ monPc = "sleep"
    /\ loop = "free"
    /\ cycles < MaxCycles
    /\ \E sm \in SitemapResults : BeginUpdate("monitor", sm)

\* load_content returns to update_knowledge_bases, which goes on to the
\* next category with entries or, after the last, calls
\* create_knowledge_base(all_documents): the split, and the batches next
LoadContentReturn ==
    /\ ~crashed
    /\ refresh.pc = "await_load"
    /\ loop = "free"
    /\ \E documents \in LoadOutcomes(SourceOrder[refresh.i]) :
        LET source == SourceOrder[refresh.i]
            all == refresh.all_documents \o documents
            j == NextSource(refresh.sitemap, refresh.i + 1)
            acq == [hist.acquired EXCEPT ![source] =
                        IF documents = <<>> THEN Acquisition("failed", <<>>)
                        ELSE Acquisition("loaded", documents)]
        IN  IF j # 0
            THEN /\ refresh' = [refresh EXCEPT !.i = j, !.all_documents = all]
                 /\ hist' = [hist EXCEPT !.acquired = acq]
                 /\ UNCHANGED <<loop, initPc, monPc, disk, vectorstore,
                                bm25_index, documents_for_bm25>>
            ELSE IF all = <<>>
            THEN /\ hist' = [hist EXCEPT !.acquired = acq,
                                         !.lastBuild = "empty"]
                 /\ Becomes(NoDocuments(Snapshot))
                 /\ Returned(refresh.owner)
            ELSE /\ refresh' = [refresh EXCEPT !.pc = "build",
                                               !.i = 0,
                                               !.all_documents = all,
                                               !.splits = SplitDocuments(all),
                                               !.done = 0]
                 /\ hist' = [hist EXCEPT !.acquired = acq,
                                         !.lastBuild = "running",
                                         !.before = Snapshot]
                 /\ loop' = refresh.owner
                 /\ UNCHANGED <<initPc, monPc, disk, vectorstore,
                                bm25_index, documents_for_bm25>>
    /\ UNCHANGED <<rankings, chunker, cabal, shutPc, cycles, crashed, query>>

\* one batch is embedded and added; when the embedding provider raises,
\* create_knowledge_base logs the error and returns
EmbedBatch ==
    /\ ~crashed
    /\ refresh.pc = "build"
    /\ LET batch == Batch(refresh.splits, refresh.done)
       IN  \E ok \in BOOLEAN :
            IF ok
            THEN /\ vectorstore' = AddBatch(vectorstore, batch)
                 /\ refresh' = [refresh EXCEPT
                        !.done = @ + 1,
                        !.pc = IF (refresh.done + 1) * batch_size
                                    >= Len(refresh.splits)
                               THEN "save_faiss" ELSE "build"]
                 /\ hist' = [hist EXCEPT !.embedded = @ \cup Range(batch)]
                 /\ UNCHANGED <<loop, initPc, monPc>>
            ELSE /\ vectorstore' = vectorstore
                 /\ hist' = [hist EXCEPT !.lastBuild = "failed"]
                 /\ Returned(refresh.owner)
    /\ UNCHANGED <<rankings, chunker, cabal, disk, bm25_index, documents_for_bm25, shutPc, cycles,
                   crashed, query>>

\* self.vectorstore.save_local(self.vectorstore_dir) writes into the
\* directory of the live snapshot: index.faiss is opened and written
SaveFaiss ==
    /\ ~crashed
    /\ refresh.pc = "save_faiss"
    /\ disk' = [disk EXCEPT !.faiss = TruncatedFile]
    /\ refresh' = [refresh EXCEPT !.pc = "save_pkl"]
    /\ UNCHANGED <<rankings, chunker, cabal, vectorstore, bm25_index, documents_for_bm25, initPc,
                   monPc, shutPc, loop, cycles, crashed, query, hist>>

\* save_local: index.faiss is complete, index.pkl is opened and written
SavePkl ==
    /\ ~crashed
    /\ refresh.pc = "save_pkl"
    /\ disk' = [disk EXCEPT !.faiss = File(vectorstore.docs),
                            !.pkl = TruncatedFile]
    /\ refresh' = [refresh EXCEPT !.pc = "save_done"]
    /\ UNCHANGED <<rankings, chunker, cabal, vectorstore, bm25_index, documents_for_bm25, initPc,
                   monPc, shutPc, loop, cycles, crashed, query, hist>>

\* save_local returns: index.pkl is complete
SaveDone ==
    /\ ~crashed
    /\ refresh.pc = "save_done"
    /\ disk' = [disk EXCEPT !.pkl = File(vectorstore.docs)]
    /\ refresh' = [refresh EXCEPT !.pc = "bm25_reset"]
    /\ UNCHANGED <<rankings, chunker, cabal, vectorstore, bm25_index, documents_for_bm25, initPc,
                   monPc, shutPc, loop, cycles, crashed, query, hist>>

\* _prepare_bm25_index: self.documents_for_bm25 = []
Bm25Reset ==
    /\ ~crashed
    /\ refresh.pc = "bm25_reset"
    /\ documents_for_bm25' = <<>>
    /\ refresh' = [refresh EXCEPT !.pc = "bm25_fill"]
    /\ UNCHANGED <<rankings, chunker, cabal, disk, vectorstore, bm25_index, initPc, monPc, shutPc,
                   loop, cycles, crashed, query, hist>>

\* _prepare_bm25_index: the documents of the docstore are appended
Bm25Fill ==
    /\ ~crashed
    /\ refresh.pc = "bm25_fill"
    /\ documents_for_bm25' = DocstoreDocuments(vectorstore)
    /\ refresh' = [refresh EXCEPT !.pc = "bm25_set"]
    /\ UNCHANGED <<rankings, chunker, cabal, disk, vectorstore, bm25_index, initPc, monPc, shutPc,
                   loop, cycles, crashed, query, hist>>

\* _prepare_bm25_index: self.bm25_index = BM25Okapi(tokenized_corpus), and
\* create_knowledge_base and update_knowledge_bases return
Bm25Set ==
    /\ ~crashed
    /\ refresh.pc = "bm25_set"
    /\ bm25_index' = Index(documents_for_bm25)
    /\ hist' = [hist EXCEPT
            !.lastBuild = "ok",
            !.before = InitHist.before,
            !.embedded = {},
            !.lastGood = [s \in KnowledgeSource |->
                IF hist.acquired[s].status = "loaded"
                THEN Range(SplitDocuments(hist.acquired[s].documents))
                ELSE hist.lastGood[s]]]
    /\ Returned(refresh.owner)
    /\ UNCHANGED <<rankings, chunker, cabal, disk, vectorstore, documents_for_bm25, shutPc, cycles,
                   crashed, query>>


(***************************************************************************)
(* hybrid_search.  The similarity of a chunk to the question and its BM25  *)
(* score are given by the order they induce: simOrder lists the positions  *)
(* of the docstore by descending similarity, bm25Order the positions of    *)
(* the BM25 corpus by descending score (bm25_scores.argsort()[::-1]).      *)
(***************************************************************************)
SourceOf(chunk) == chunk[1]
\* doc.page_content: the text of the chunk, whatever its category
PageContent(chunk) == <<chunk[2], chunk[3]>>
\* doc.metadata['timestamp']
Timestamp(chunk) == chunk[4]

TakeAll(seq, n) == seq

Take(seq, n) == SubSeq(seq, 1, Min(n, Len(seq)))

\* self.vectorstore.similarity_search(question, k=k*2)
similarity_search(store, simOrder, n) ==
    [i \in 1..Min(n, Len(simOrder)) |-> store.docs[simOrder[i]]]

FilterBySourceUnfiltered(results, sources) == results

\* [doc for doc in semantic_results if doc.metadata.get('source') in
\* source_values]
FilterBySource(results, sources) ==
    SelectSeq(results, LAMBDA doc : SourceOf(doc) \in sources)

\* the loop over bm25_scores.argsort()[::-1] of the filtered search: the
\* documents of the filter's categories in score order, until k*2 of them
\* are found.  self.documents_for_bm25[idx] raises IndexError when the list
\* is shorter than the corpus that was scored.
RECURSIVE Bm25Filtered(_, _, _, _, _)
Bm25Filtered(order, docs, sources, n, acc) ==
    IF order = <<>> THEN [fault |-> FALSE, docs |-> acc]
    ELSE IF Head(order) > Len(docs) THEN [fault |-> TRUE, docs |-> <<>>]
    ELSE LET doc == docs[Head(order)]
             acc2 == IF SourceOf(doc) \in sources
                     THEN Append(acc, doc) ELSE acc
         IN  IF Len(acc2) >= n THEN [fault |-> FALSE, docs |-> acc2]
             ELSE Bm25Filtered(Tail(order), docs, sources, n, acc2)

\* top_indices = bm25_scores.argsort()[-k*2:][::-1] and
\* [self.documents_for_bm25[i] for i in top_indices]
Bm25Top(order, docs, n) ==
    LET top == Take(order, n)
    IN  IF \E i \in 1..Len(top) : top[i] > Len(docs)
        THEN [fault |-> TRUE, docs |-> <<>>]
        ELSE [fault |-> FALSE, docs |-> [i \in 1..Len(top) |-> docs[top[i]]]]

\* add_unique_doc over a list: the documents whose page_content was not
\* seen before, in order
RECURSIVE AddUnique(_, _)
AddUnique(combined, results) ==
    IF results = <<>> THEN combined
    ELSE IF \E i \in 1..Len(combined) :
                PageContent(combined[i]) = PageContent(Head(results))
         THEN AddUnique(combined, Tail(results))
         ELSE AddUnique(Append(combined, Head(results)), Tail(results))

\* the BM25 half of hybrid_search and the merge: the result, or fault when
\* an exception was raised (hybrid_search then returns [])
MergeResults(semantic_results, bm25Order, docs, k, sources) ==
    LET filtered_semantic == IF sources # {}
                             THEN FilterBySource(semantic_results, sources)
                             ELSE semantic_results
        bm25 == IF sources # {}
                THEN Bm25Filtered(bm25Order, docs, sources, k * 2, <<>>)
                ELSE Bm25Top(bm25Order, docs, k * 2)
        combined_results == AddUnique(AddUnique(<<>>, bm25.docs),
                                      filtered_semantic)
    IN  IF bm25.fault
        THEN [fault |-> TRUE, docs |-> <<>>, lexical |-> <<>>, dense |-> <<>>]
        ELSE [fault |-> FALSE, docs |-> Take(combined_results, k),
              lexical |-> bm25.docs, dense |-> filtered_semantic]

\* hybrid_search on one state of the three attributes
hybrid_search(store, bm25, docs, k, sources, simOrder, bm25Order) ==
    IF store.none \/ bm25.none
    THEN [fault |-> FALSE, docs |-> <<>>, lexical |-> <<>>, dense |-> <<>>]
    ELSE MergeResults(similarity_search(store, simOrder, k * 2),
                      bm25Order, docs, k, sources)

\* the order in which the model's question ranks n indexed chunks: the
\* chunk added last first
QuestionOrder(n) == [i \in 1..n |-> n + 1 - i]

(***************************************************************************)
(* A message: app.webhook answers 503 while the init task is not done,     *)
(* and otherwise the agent calls a tool, which runs query on a worker      *)
(* thread.                                                                 *)
(***************************************************************************)
\* the filters of the tools news_systems and faq_help
QueryFilters == {{"news"}, {"faq"}}

Answered(q, answer, docs) ==
    [q EXCEPT !.pc = "done", !.answer = answer, !.docs = docs]

Webhook ==
    /\ ~crashed
    /\ query.pc = "idle"
    /\ shutPc = "idle"
    /\ loop = "free"
    /\ IF initPc # "done"
       THEN query' = Answered([query EXCEPT !.loaded = hist.loaded],
                              "initializing", <<>>)
       ELSE \E sources \in QueryFilters :
                query' = [query EXCEPT !.pc = "query", !.sources = sources,
                                        !.k = ToolK,
                                        !.loaded = hist.loaded]
    /\ UNCHANGED <<rankings, chunker, cabal, disk, vectorstore, bm25_index, documents_for_bm25, initPc,
                   monPc, shutPc, loop, refresh, cycles, crashed, hist>>

\* query up to the end of the similarity search of hybrid_search
QuerySemantic ==
    /\ ~crashed
    /\ query.pc = "query"
    /\ IF vectorstore.none
       THEN query' = Answered(query, "not_initialized", <<>>)
       ELSE IF bm25_index.none
       THEN query' = Answered([query EXCEPT !.ready = TRUE],
                              "no_information", <<>>)
       ELSE \E fault \in BOOLEAN :
            IF fault
            THEN query' = Answered([query EXCEPT !.ready = TRUE,
                                                  !.fault = TRUE],
                                   "no_information", <<>>)
            ELSE query' = [query EXCEPT !.pc = "bm25",
                                        !.ready = TRUE,
                                        !.seenVector = vectorstore.docs]
    /\ UNCHANGED <<rankings, chunker, cabal, disk, vectorstore, bm25_index, documents_for_bm25, initPc,
                   monPc, shutPc, loop, refresh, cycles, crashed, hist>>

\* the BM25 search of hybrid_search, the merge, and query's answer
QueryBm25 ==
    /\ ~crashed
    /\ query.pc = "bm25"
    /\ LET found == IF bm25_index.none
                    THEN [fault |-> TRUE, docs |-> <<>>,
                          lexical |-> <<>>, dense |-> <<>>]
                    ELSE MergeResults(
                            similarity_search(Index(query.seenVector),
                                QuestionOrder(Len(query.seenVector)),
                                query.k * 2),
                            QuestionOrder(Len(bm25_index.docs)),
                            documents_for_bm25, query.k, query.sources)
           seen == [query EXCEPT !.fault = found.fault,
                                 !.searched = TRUE,
                                 !.lexical = found.lexical,
                                 !.dense = found.dense,
                                 !.seenBm25 = bm25_index.docs,
                                 !.seenDocs = documents_for_bm25]
       IN  query' = Answered(seen,
                        IF found.docs = <<>> THEN "no_information"
                        ELSE "documents",
                        found.docs)
    /\ UNCHANGED <<rankings, chunker, cabal, disk, vectorstore, bm25_index, documents_for_bm25, initPc,
                   monPc, shutPc, loop, refresh, cycles, crashed, hist>>

\* the answer is sent; the next message can come
QueryReturn ==
    /\ ~crashed
    /\ query.pc = "done"
    /\ query' = IdleQuery
    /\ UNCHANGED <<rankings, chunker, cabal, disk, vectorstore, bm25_index, documents_for_bm25, initPc,
                   monPc, shutPc, loop, refresh, cycles, crashed, hist>>

(***************************************************************************)
(* The init task ends, shutdown, and a crash.                              *)
(***************************************************************************)
\* initialize_background after neogames_knowledge.initialize(): the sleep
\* and the rankings' initialisation are over
InitDone ==
    /\ ~crashed
    /\ initPc = "sleep"
    /\ loop = "free"
    /\ initPc' = "done"
    /\ UNCHANGED <<rankings, chunker, cabal, disk, vectorstore, bm25_index, documents_for_bm25, monPc,
                   shutPc, loop, refresh, cycles, crashed, query, hist>>

\* task.cancel() and await task, for a task that is suspended at an await:
\* CancelledError is raised there, and no except clause of
\* update_knowledge_bases, load_content or initialize catches it
CancelledRefreshIgnored(owner) == refresh

CancelledRefresh(owner) ==
    IF refresh.owner = owner THEN IdleRefresh ELSE refresh

cancel_init_skipped(pc) == pc

\* initialization_task.cancel(): a task that is done stays done
cancel_init(pc) == IF pc = "done" THEN "done" ELSE "cancelled"

\* app.shutdown: initialization_task.cancel() and await it.  Awaiting a
\* task that is done does not suspend: shutdown goes on to
\* neogames_knowledge.shutdown() without another coroutine running.
ShutdownInit ==
    /\ ~crashed
    /\ shutPc = "idle"
    /\ loop = "free"
    /\ shutPc' = "knowledge"
    /\ initPc' = cancel_init(initPc)
    /\ refresh' = IF initPc = "done" THEN refresh ELSE CancelledRefresh("init")
    /\ loop' = IF initPc = "done" THEN "shutdown" ELSE "free"
    /\ UNCHANGED <<rankings, chunker, cabal, disk, vectorstore, bm25_index, documents_for_bm25, monPc,
                   cycles, crashed, query, hist>>

shutdown_keeps_monitor(pc) == pc

\* NeoGamesKnowledge.shutdown: if self._monitor_task, cancel and await it
shutdown_monitor(pc) == IF pc = "none" THEN "none" ELSE "cancelled"

ShutdownKnowledge ==
    /\ ~crashed
    /\ shutPc = "knowledge"
    /\ loop \in {"free", "shutdown"}
    /\ shutPc' = "done"
    /\ loop' = "free"
    /\ monPc' = shutdown_monitor(monPc)
    /\ refresh' = IF shutdown_monitor(monPc) = "cancelled"
                  THEN CancelledRefresh("monitor") ELSE refresh
    /\ UNCHANGED <<rankings, chunker, cabal, disk, vectorstore, bm25_index, documents_for_bm25, initPc,
                   cycles, crashed, query, hist>>

\* the process is killed, at any step: what it held in memory is gone,
\* the files of vectorstore_dir stay as they are
Crash ==
    /\ ~crashed
    /\ crashed' = TRUE
    /\ vectorstore' = NoIndex
    /\ bm25_index' = NoIndex
    /\ documents_for_bm25' = <<>>
    /\ initPc' = "created"
    /\ monPc' = "none"
    /\ shutPc' = "idle"
    /\ loop' = "free"
    /\ refresh' = IdleRefresh
    /\ query' = IdleQuery
    /\ hist' = [InitHist EXCEPT !.diskAtStart = hist.diskAtStart]
    /\ UNCHANGED <<rankings, chunker, cabal, disk, cycles>>

(***************************************************************************)
(* The state of the refresh lifecycle, read off the coroutines.            *)
(***************************************************************************)
RefreshInFlight == refresh.pc # "idle"

\* the coroutines that are inside update_knowledge_bases
RefreshesInFlight ==
    {owner \in {"init", "monitor"} :
        \/ owner = "init" /\ initPc = "update"
        \/ owner = "monitor" /\ monPc = "update"}

LifecycleState ==
    IF shutPc = "done"
    THEN IF RefreshInFlight \/ monPc \in {"sleep", "update"}
         THEN "REFRESHING_AFTER_STOP" ELSE "STOPPED"
    ELSE IF shutPc # "idle" THEN "SHUTTING_DOWN"
    ELSE IF initPc = "created" THEN "UNINITIALIZED"
    ELSE IF initPc = "loaded" THEN "LOADING"
    ELSE IF RefreshInFlight THEN "REFRESHING"
    ELSE "READY"

Next ==
    \/ InitializeLoad
    \/ InitializeUpdate
    \/ MonitorWake
    \/ LoadContentReturn
    \/ EmbedBatch
    \/ SaveFaiss
    \/ SavePkl
    \/ SaveDone
    \/ Bm25Reset
    \/ Bm25Fill
    \/ Bm25Set
    \/ InitDone
    \/ Webhook
    \/ QuerySemantic
    \/ QueryBm25
    \/ QueryReturn
    \/ ShutdownInit
    \/ ShutdownKnowledge
    \/ Crash

Spec == Init /\ [][Next]_vars

(***************************************************************************)
(* The refresh alone, as the event loop runs it: a coroutine that can take *)
(* a step takes it.  A source may never answer: loader.aload() is awaited  *)
(* without a timeout.                                                      *)
(***************************************************************************)
\* await self.load_content(source, urls) for a source that never answers
LoadContentHangs ==
    /\ ~crashed
    /\ refresh.pc = "await_load"
    /\ loop = "free"
    /\ refresh' = [refresh EXCEPT !.pc = "hung"]
    /\ UNCHANGED <<rankings, chunker, cabal, disk, vectorstore, bm25_index, documents_for_bm25, initPc,
                   monPc, shutPc, loop, cycles, crashed, query, hist>>

NextRefresh ==
    \/ InitializeLoad
    \/ InitializeUpdate
    \/ MonitorWake
    \/ LoadContentReturn
    \/ LoadContentHangs
    \/ EmbedBatch
    \/ SaveFaiss
    \/ SavePkl
    \/ SaveDone
    \/ Bm25Reset
    \/ Bm25Fill
    \/ Bm25Set
    \/ InitDone

SpecRefresh == Init /\ [][NextRefresh]_vars /\ WF_vars(NextRefresh)

(***************************************************************************)
(* hybrid_search as a function: any small index, any question (given by    *)
(* the two orders it induces), any k and any filter.                       *)
(***************************************************************************)
\* the chunks an index may hold: one per category and page text, each
\* page text acquired at a time of its own
SearchChunks == {<<source, content, 1, content>> :
                    source \in KnowledgeSource, content \in Contents}

SearchIndexes ==
    UNION {[1..n -> SearchChunks] : n \in 0..MaxIndex}

SearchFilters == SUBSET KnowledgeSource

InitSearch ==
    /\ \E docs \in SearchIndexes :
        /\ vectorstore \in {NoIndex, Index(docs)}
        /\ bm25_index = IF vectorstore.none THEN NoIndex ELSE Index(docs)
        /\ documents_for_bm25 = bm25_index.docs
        /\ vectorstore.none => docs = <<>>
    /\ disk = [faiss |-> AbsentFile, pkl |-> AbsentFile]
    /\ initPc = "done"
    /\ monPc = "sleep"
    /\ shutPc = "idle"
    /\ loop = "free"
    /\ refresh = IdleRefresh
    /\ cycles = 0
    /\ crashed = FALSE
    /\ query = IdleQuery
    /\ hist = InitHist
    /\ cabal = IdleCabal
    /\ chunker = IdleChunker
    /\ rankings = IdleRankings

\* CabalKnowledgeSystem.query over stores that hold the chunks of one
\* source each: for every source asked for (every source when none is
\* given) that has a store, the k documents of the store most similar to
\* the question; the lists are appended in the order of the sources and
\* results[:k] is returned.  ranked lists the chunks by similarity.
RECURSIVE CabalResults(_, _, _, _)
CabalResults(ranked, k, query_sources, i) ==
    IF i > Len(SourceOrder) THEN <<>>
    ELSE LET source_type == SourceOrder[i]
             store == SelectSeq(ranked,
                                LAMBDA doc : SourceOf(doc) = source_type)
             docs == IF source_type \in query_sources /\ store # <<>>
                     THEN Take(store, k) ELSE <<>>
         IN  docs \o CabalResults(ranked, k, query_sources, i + 1)

cabal_query(ranked, k, sources) ==
    Take(CabalResults(ranked, k,
                      IF sources # {} THEN sources ELSE KnowledgeSource, 1),
         k)

\* docs = self.hybrid_search(question, k=k, sources=sources), and the
\* answer query makes of it
Search ==
    /\ query.pc = "idle"
    /\ \E k \in 1..MaxK, sources \in SearchFilters,
          simOrder \in Permutations(1..Len(vectorstore.docs)),
          bm25Order \in Permutations(1..Len(bm25_index.docs)) :
        LET found == hybrid_search(vectorstore, bm25_index,
                                   documents_for_bm25, k, sources,
                                   simOrder, bm25Order)
        IN  query' = [IdleQuery EXCEPT
                        !.pc = "done",
                        !.sources = sources,
                        !.k = k,
                        !.ready = ~vectorstore.none,
                        !.fault = found.fault,
                        !.searched = ~vectorstore.none /\ ~bm25_index.none,
                        !.seenVector = vectorstore.docs,
                        !.seenBm25 = bm25_index.docs,
                        !.seenDocs = documents_for_bm25,
                        !.lexical = found.lexical,
                        !.dense = found.dense,
                        !.cabal = cabal_query(
                            similarity_search(vectorstore, simOrder,
                                              Len(simOrder)),
                            k, sources),
                        !.answer = IF vectorstore.none THEN "not_initialized"
                                   ELSE IF found.docs = <<>>
                                   THEN "no_information" ELSE "documents",
                        !.docs = found.docs]
    /\ UNCHANGED <<rankings, chunker, cabal, disk, vectorstore, bm25_index, documents_for_bm25, initPc,
                   monPc, shutPc, loop, refresh, cycles, crashed, hist>>

NextSearch == Search

SpecSearch == InitSearch /\ [][NextSearch]_vars

(***************************************************************************)
(* CabalKnowledgeSystem.initialize, which nothing in the program calls:    *)
(* for every source, _update_source when the index file is missing or      *)
(* older than update_interval, _load_source otherwise.                     *)
(***************************************************************************)
CabalChunkCounts == {SmallDoc, BigDoc}

\* vectorstore_dir aside, the engine after shutdown: nothing of it runs
EngineStopped ==
    /\ disk = [faiss |-> AbsentFile, pkl |-> AbsentFile]
    /\ vectorstore = NoIndex
    /\ bm25_index = NoIndex
    /\ documents_for_bm25 = <<>>
    /\ initPc = "cancelled"
    /\ monPc = "none"
    /\ shutPc = "done"
    /\ loop = "free"
    /\ refresh = IdleRefresh
    /\ cycles = 0
    /\ crashed = FALSE
    /\ query = IdleQuery
    /\ hist = InitHist

InitCabal ==
    /\ EngineStopped
    /\ \E files \in [CabalSource -> {0} \cup CabalChunkCounts] :
        cabal = [IdleCabal EXCEPT !.pc = "loop", !.files = files]
    /\ chunker = IdleChunker
    /\ rankings = IdleRankings

\* the loop of initialize goes on with the next source: the calls made for
\* the source before have returned or raised into its except clause
CabalNextSource(c) ==
    [c EXCEPT !.pc = "loop", !.i = @ + 1, !.chunks = 0, !.depth = 0]

\* an exception reaches the except clause of initialize, which logs it:
\* "Continua com a proxima fonte em caso de erro"
CabalRaised(c) ==
    CabalNextSource([c EXCEPT !.raised = @ \cup {CabalSources[c.i]}])

\* the number of nested fallback calls the interpreter allows on one call
\* chain before it raises RecursionError
RecursionLimit == 3

\* one function of the pair _update_source, _load_source awaits the other
\* from its except clause: the call is one level deeper on the same chain,
\* and past the interpreter's limit it raises RecursionError, which the
\* callers pass on (it is raised inside their except clauses, and
\* _update_source raises again what it catches) up to the except clause of
\* initialize
Fallback(c, callee) ==
    IF c.depth < RecursionLimit
    THEN [c EXCEPT !.pc = callee, !.depth = @ + 1]
    ELSE CabalRaised(c)

\* the number of chunks _update_source has after the page load, the
\* backups and the default documents: none is possible for NEO_CABAL only,
\* _create_default_documents returns documents for MRWORMY
CabalDocuments(source) ==
    IF source = "mrwormy" THEN CabalChunkCounts ELSE {0} \cup CabalChunkCounts

\* if self._needs_update(source_type): ... else: ...
CabalNeedsUpdate ==
    /\ cabal.pc = "loop"
    /\ cabal.i <= Len(CabalSources)
    /\ \E stale \in BOOLEAN :
        LET source == CabalSources[cabal.i]
            needs_update == cabal.files[source] = 0 \/ stale
        IN  cabal' = [cabal EXCEPT
                         !.pc = IF needs_update THEN "update" ELSE "load",
                         !.tried = @ \cup {source}]
    /\ UNCHANGED <<rankings, chunker, disk, vectorstore, bm25_index, documents_for_bm25, initPc,
                   monPc, shutPc, loop, refresh, cycles, crashed, query, hist>>

\* _load_source: FAISS.load_local, and _update_source when it raises
CabalLoadSource ==
    /\ cabal.pc = "load"
    /\ \E ok \in BOOLEAN :
        LET source == CabalSources[cabal.i]
        IN  cabal' = IF ok /\ cabal.files[source] # 0
                     THEN CabalNextSource(
                              [cabal EXCEPT !.vectorstores[source] =
                                                cabal.files[source]])
                     ELSE Fallback(cabal, "update")
    /\ UNCHANGED <<rankings, chunker, disk, vectorstore, bm25_index, documents_for_bm25, initPc,
                   monPc, shutPc, loop, refresh, cycles, crashed, query, hist>>

\* _update_source up to chunks = splitter.split_documents(documents); when
\* the page load of NEO_CABAL raises it returns _load_source instead, and
\* without documents it logs a warning and returns
CabalSplit ==
    /\ cabal.pc = "update"
    /\ LET source == CabalSources[cabal.i]
       IN  \/ /\ source = "neo_cabal"
              /\ cabal' = Fallback(cabal, "load")
           \/ \E chunks \in CabalDocuments(source) :
                cabal' = IF chunks = 0 THEN CabalNextSource(cabal)
                         ELSE [cabal EXCEPT !.pc = "embed",
                                            !.chunks = chunks]
    /\ UNCHANGED <<rankings, chunker, disk, vectorstore, bm25_index, documents_for_bm25, initPc,
                   monPc, shutPc, loop, refresh, cycles, crashed, query, hist>>

\* the sizes of the calls FAISS.from_documents(chunks, embeddings) makes
\* to the embedding provider as _update_source calls it: one, with every
\* chunk
from_documents(chunks) == <<chunks>>

\* vectorstore = FAISS.from_documents(chunks, embeddings); when it raises,
\* _update_source raises and initialize goes on with the next source
CabalEmbed ==
    /\ cabal.pc = "embed"
    /\ \E ok \in BOOLEAN :
        LET embedded == [cabal EXCEPT
                            !.calls = @ \o from_documents(cabal.chunks)]
        IN  cabal' = IF ok THEN [embedded EXCEPT !.pc = "save"]
                     ELSE CabalRaised(embedded)
    /\ UNCHANGED <<rankings, chunker, disk, vectorstore, bm25_index, documents_for_bm25, initPc,
                   monPc, shutPc, loop, refresh, cycles, crashed, query, hist>>

\* vectorstore.save_local(source_dir);
\* self.vectorstores[source_type] = vectorstore
CabalSave ==
    /\ cabal.pc = "save"
    /\ LET source == CabalSources[cabal.i]
       IN  cabal' = CabalNextSource(
                        [cabal EXCEPT !.files[source] = cabal.chunks,
                                      !.vectorstores[source] = cabal.chunks])
    /\ UNCHANGED <<rankings, chunker, disk, vectorstore, bm25_index, documents_for_bm25, initPc,
                   monPc, shutPc, loop, refresh, cycles, crashed, query, hist>>

NextCabal ==
    \/ CabalNeedsUpdate
    \/ CabalLoadSource
    \/ CabalSplit
    \/ CabalEmbed
    \/ CabalSave

SpecCabal == InitCabal /\ [][NextCabal]_vars

(***************************************************************************)
(* The chunker of create_knowledge_base:                                   *)
(* RecursiveCharacterTextSplitter(chunk_size=1000, chunk_overlap=200,      *)
(* separators=["\n\n", "\n", ". "]).split_documents.  A text is a sequence  *)
(* of sentences, each with the separator that stands before it in the     *)
(* text and its number of characters; a piece of text is a pair <<i, j>>,  *)
(* the sentences i to j with the separator before sentence i; a chunk's    *)
(* page_content is the pair of the positions of its first and its last     *)
(* character in the text.                                                  *)
(***************************************************************************)
chunk_size == 1000

chunk_overlap == 200

separators == <<"paragraph", "line", "sentence">>

\* len("\n\n"), len("\n"), len(". "); the first sentence has no separator
SeparatorLen(sep) ==
    CASE sep = "paragraph" -> 2
      [] sep = "line" -> 1
      [] sep = "sentence" -> 2
      [] OTHER -> 0

RECURSIVE TextLen(_, _, _)
TextLen(text, i, j) ==
    IF i > j THEN 0
    ELSE SeparatorLen(text[i].sep) + text[i].len + TextLen(text, i + 1, j)

PieceLen(text, piece) == TextLen(text, piece[1], piece[2])

\* the texts load_content may hand over: up to MaxSentences sentences,
\* each but the first after a blank line, a newline or a full stop
ShortSentence == 150

MidSentence == 500

LongSentence == 1001

MaxSentences == 3

SentenceLengths == {ShortSentence, MidSentence, LongSentence}

Texts ==
    UNION {{text \in [1..n -> [sep : Range(separators) \cup {"none"},
                               len : SentenceLengths]] :
                \A k \in 1..n : (text[k].sep = "none") <=> (k = 1)} :
           n \in 1..MaxSentences}

\* the first separator of the list found in the piece (0: none is), as
\* the loop at the head of _split_text looks for it
FirstSeparator(text, piece, seps) ==
    LET found == {n \in 1..Len(seps) :
                    \E k \in (piece[1] + 1)..piece[2] : text[k].sep = seps[n]}
    IN  IF found = {} THEN 0
        ELSE CHOOSE n \in found : \A other \in found : n <= other

\* _split_text_with_regex with keep_separator: the piece cut before every
\* occurrence of the separator, which stays at the head of what follows it
RECURSIVE split_text_with_regex(_, _, _)
split_text_with_regex(text, piece, separator) ==
    LET cuts == {k \in (piece[1] + 1)..piece[2] : text[k].sep = separator}
    IN  IF cuts = {} THEN <<piece>>
        ELSE LET cut == CHOOSE k \in cuts : \A other \in cuts : k <= other
             IN  <<(<<piece[1], cut - 1>>)>> \o
                 split_text_with_regex(text, <<cut, piece[2]>>, separator)

\* _join_docs: the pieces of current_doc joined by "" are one piece
join_docs(current_doc) ==
    <<current_doc[1][1], current_doc[Len(current_doc)][2]>>

\* the while loop of _merge_splits: pieces leave current_doc from the
\* front until what stays is within chunk_overlap and the next piece fits
RECURSIVE PopOverlap(_, _, _, _)
PopOverlap(text, current_doc, total, len) ==
    IF total > chunk_overlap \/ (total + len > chunk_size /\ total > 0)
    THEN PopOverlap(text, Tail(current_doc),
                    total - PieceLen(text, Head(current_doc)), len)
    ELSE [current_doc |-> current_doc, total |-> total]

\* _merge_splits(splits, ""): pieces are collected until the next one
\* would pass chunk_size; the collection is emitted and its tail is kept
\* as the overlap of the next one
RECURSIVE merge_splits(_, _, _, _, _)
merge_splits(text, splits, current_doc, total, docs) ==
    IF splits = <<>>
    THEN IF current_doc = <<>> THEN docs
         ELSE Append(docs, join_docs(current_doc))
    ELSE LET d == Head(splits)
             len == PieceLen(text, d)
             full == total + len > chunk_size /\ current_doc # <<>>
             kept == IF full THEN PopOverlap(text, current_doc, total, len)
                     ELSE [current_doc |-> current_doc, total |-> total]
         IN  merge_splits(text, Tail(splits), Append(kept.current_doc, d),
                          kept.total + len,
                          IF full THEN Append(docs, join_docs(current_doc))
                          ELSE docs)

MergeGood(text, good_splits) ==
    IF good_splits = <<>> THEN <<>>
    ELSE merge_splits(text, good_splits, <<>>, 0, <<>>)

\* _split_text: the piece is split by the first separator found in it;
\* pieces shorter than chunk_size are merged, a longer piece is split by
\* the separators that remain, and emitted as it is when none remains
RECURSIVE split_text(_, _, _)
RECURSIVE SplitLoop(_, _, _, _, _)
SplitLoop(text, splits, new_separators, good_splits, final_chunks) ==
    IF splits = <<>> THEN final_chunks \o MergeGood(text, good_splits)
    ELSE LET s == Head(splits)
             merged == final_chunks \o MergeGood(text, good_splits)
         IN  IF PieceLen(text, s) < chunk_size
             THEN SplitLoop(text, Tail(splits), new_separators,
                            Append(good_splits, s), final_chunks)
             ELSE IF new_separators = <<>>
                  THEN SplitLoop(text, Tail(splits), new_separators, <<>>,
                                 Append(merged, s))
                  ELSE SplitLoop(text, Tail(splits), new_separators, <<>>,
                                 merged \o split_text(text, s, new_separators))

split_text(text, piece, seps) ==
    LET n == FirstSeparator(text, piece, seps)
        separator == IF n = 0 THEN seps[Len(seps)] ELSE seps[n]
        new_separators == IF n = 0 THEN <<>>
                          ELSE SubSeq(seps, n + 1, Len(seps))
    IN  SplitLoop(text, split_text_with_regex(text, piece, separator),
                  new_separators, <<>>, <<>>)

\* the chunk made of a piece: its text stripped of the white space at its
\* ends (a newline at its head; ". " starts with a full stop and stays),
\* and the metadata of the document, copied
ChunkOfPiece(text, piece) ==
    [page_content |->
        <<1 + TextLen(text, 1, piece[1] - 1)
            + (IF text[piece[1]].sep \in {"paragraph", "line"}
               THEN SeparatorLen(text[piece[1]].sep) ELSE 0),
          TextLen(text, 1, piece[2])>>,
     metadata |-> {"source", "url", "timestamp"}]

split_documents(text) ==
    LET pieces == split_text(text, <<1, Len(text)>>, separators)
    IN  [n \in 1..Len(pieces) |-> ChunkOfPiece(text, pieces[n])]

InitChunker ==
    /\ disk = [faiss |-> AbsentFile, pkl |-> AbsentFile]
    /\ vectorstore = NoIndex
    /\ bm25_index = NoIndex
    /\ documents_for_bm25 = <<>>
    /\ initPc = "created"
    /\ monPc = "none"
    /\ shutPc = "idle"
    /\ loop = "free"
    /\ refresh = IdleRefresh
    /\ cycles = 0
    /\ crashed = FALSE
    /\ query = IdleQuery
    /\ hist = InitHist
    /\ cabal = IdleCabal
    /\ \E text \in Texts : chunker = [IdleChunker EXCEPT !.text = text]
    /\ rankings = IdleRankings

\* splits = text_splitter.split_documents(documents), for one document
ChunkDocument ==
    /\ chunker.pc = "idle"
    /\ chunker' = [chunker EXCEPT !.pc = "done",
                                  !.chunks = split_documents(chunker.text)]
    /\ UNCHANGED <<rankings, disk, vectorstore, bm25_index,
                   documents_for_bm25, initPc, monPc, shutPc, loop, refresh,
                   cycles, crashed, query, hist, cabal>>

NextChunker == ChunkDocument

SpecChunker == InitChunker /\ [][NextChunker]_vars

(***************************************************************************)
(* NeoGamesRankings.initialize: process_ranking for power, guild, memorial *)
(* and war, each in a try of its own, and a query when it is through.      *)
(***************************************************************************)
\* entries in a ranking page that has some
MaxEntries == 2

\* the ranking files an earlier run left: none, or every file that
\* save_ranking_data writes
PriorRankingFiles ==
    {[path \in RankingPaths |-> NoRankingFile],
     [path \in RankingPaths |->
        IF \E ranking_type \in Range(RankingTypes),
              class_id \in 0..Len(CLASS_MAPPING) :
                path \in SavePaths(ranking_type, class_id,
                                   ranking_type = "war")
        THEN RankingFile(MaxEntries) ELSE NoRankingFile]}

InitRankings ==
    /\ EngineStopped
    /\ cabal = IdleCabal
    /\ chunker = IdleChunker
    /\ \E files \in PriorRankingFiles :
        rankings = [IdleRankings EXCEPT !.pc = "loop", !.files = files,
                                        !.prior = files]

\* what fetch_page_content and the parser make of one page: the fetch
\* raises, the page is empty, the parser raises, or it returns its
\* entries: a list for power, guild and memorial, and for war the dict
\* of the two lists, 'war_roles' and 'weekly_scores'
PageOutcomes(ranking_type) ==
    {[kind |-> kind, entries |-> <<>>] :
        kind \in {"fetch_raises", "no_content", "parse_raises"}}
    \cup (IF ranking_type = "war"
          THEN {[kind |-> "dict", entries |-> <<roles, weekly>>] :
                    roles \in {0, MaxEntries}, weekly \in {0, MaxEntries}}
          ELSE {[kind |-> "list", entries |-> <<entries>>] :
                    entries \in {0, MaxEntries}})

\* if power_data: ... / if war_data: ... : a list is true when it has
\* entries, the dict of parse_war_ranking has its two keys and is true
Truthy(data) ==
    IF data.kind = "dict" THEN Len(data.entries) > 0
    ELSE data.entries[1] > 0

\* save_ranking_data(data, ranking_type, class_id): json.dump of
\* 'rankings': data, or of the two lists of war into their files
save_ranking_data(files, data, ranking_type, class_id) ==
    [path \in RankingPaths |->
        IF path \in SavePaths(ranking_type, class_id, data.kind = "dict")
        THEN IF data.kind = "dict"
             THEN IF path[Len(path)] = "roles"
                  THEN RankingFile(data.entries[1])
                  ELSE RankingFile(data.entries[2])
             ELSE RankingFile(data.entries[1])
        ELSE files[path]]

\* the loop of initialize as a failure of one ranking type would end it
NextRankingTypeOrStop(r, ranking_type) ==
    [r EXCEPT !.i = @ + 1, !.class_id = 0,
              !.processed = @ \cup {ranking_type},
              !.pc = IF r.i = Len(RankingTypes) \/ ranking_type \in r.raised
                     THEN "done" ELSE "loop"]

\* the loop of initialize goes on with the next ranking type
NextRankingType(r, ranking_type) ==
    [r EXCEPT !.i = @ + 1, !.class_id = 0,
              !.processed = @ \cup {ranking_type},
              !.pc = IF r.i = Len(RankingTypes) THEN "done" ELSE "loop"]

\* one page of process_ranking(ranking_type): fetched, parsed and saved
\* when the data is true.  An exception leaves process_ranking and is
\* logged by initialize, which goes on; power has a page for the general
\* ranking and one for every class.
ProcessRanking ==
    /\ rankings.pc = "loop"
    /\ LET ranking_type == RankingTypes[rankings.i]
       IN  \E data \in PageOutcomes(ranking_type) :
            LET saves == data.kind \in {"list", "dict"} /\ Truthy(data)
                after == IF saves
                         THEN [rankings EXCEPT
                                !.files = save_ranking_data(
                                    rankings.files, data, ranking_type,
                                    rankings.class_id),
                                !.saved = IF \E n \in 1..Len(data.entries) :
                                                data.entries[n] > 0
                                          THEN @ \cup {<<ranking_type,
                                                         rankings.class_id>>}
                                          ELSE @]
                         ELSE rankings
            IN  rankings' =
                    IF data.kind \in {"fetch_raises", "parse_raises"}
                    THEN NextRankingType(
                            [after EXCEPT !.raised = @ \cup {ranking_type}],
                            ranking_type)
                    ELSE IF ranking_type = "power"
                            /\ rankings.class_id < Len(CLASS_MAPPING)
                         THEN [after EXCEPT !.class_id = @ + 1]
                         ELSE NextRankingType(after, ranking_type)
    /\ UNCHANGED <<disk, vectorstore, bm25_index, documents_for_bm25, initPc,
                   monPc, shutPc, loop, refresh, cycles, crashed, query, hist,
                   cabal, chunker>>

\* query(question, ranking_types, class_abbr=class_abbr): the ranking
\* types asked for whose file exists and has entries, each one response
RECURSIVE ranking_responses(_, _, _)
ranking_responses(files, ranking_types, class_abbr) ==
    IF ranking_types = <<>> THEN <<>>
    ELSE LET json_path == get_json_path(Head(ranking_types), class_abbr)
             rest == ranking_responses(files, Tail(ranking_types), class_abbr)
         IN  IF files[json_path].exists /\ files[json_path].rankings > 0
             THEN <<Head(ranking_types)>> \o rest ELSE rest

\* a tool of agent_setup.py asks for one ranking type, the power tools of
\* the classes with class_abbr
RankingsQuery ==
    /\ rankings.pc = "done"
    /\ \E ranking_type \in Range(RankingTypes), class_abbr \in ClassAbbrs :
        /\ class_abbr # None => ranking_type = "power"
        /\ rankings' = [rankings EXCEPT
                !.pc = "answered",
                !.asked = <<ranking_type, class_abbr>>,
                !.response = ranking_responses(rankings.files,
                                               <<ranking_type>>, class_abbr)]
    /\ UNCHANGED <<disk, vectorstore, bm25_index, documents_for_bm25, initPc,
                   monPc, shutPc, loop, refresh, cycles, crashed, query, hist,
                   cabal, chunker>>

NextRankings ==
    \/ ProcessRanking
    \/ RankingsQuery

SpecRankings == InitRankings /\ [][NextRankings]_vars

(***************************************************************************)
(* The three loops that go on after a failure, each from its own start and *)
(* as the event loop runs it: the refresh of NeoGamesKnowledge, and the    *)
(* initialize of CabalKnowledgeSystem and of NeoGamesRankings.             *)
(***************************************************************************)
InitEngine == Init \/ InitCabal \/ InitRankings

NextEngine == NextRefresh \/ NextCabal \/ NextRankings

SpecEngine ==
    /\ InitEngine
    /\ [][NextEngine]_vars
    /\ WF_vars(NextRefresh)
    /\ WF_vars(NextCabal)
    /\ WF_vars(NextRankings)

(***************************************************************************)
(* Properties.                                                             *)
(***************************************************************************)

\* C1: a query that overlaps a refresh never observes a partially-built
\* snapshot: the docstore its similarity search read, the corpus its BM25
\* scores were computed over and the document list it indexed with those
\* scores are the three parts of one complete snapshot, which are equal.
C1_QueryReadsOneSnapshot ==
    (query.pc = "done" /\ query.searched) =>
        /\ query.seenVector = query.seenBm25
        /\ query.seenBm25 = query.seenDocs

\* C2: with a non-empty category filter, every document hybrid_search
\* returns has a category of the filter, and when no chunk of the index has
\* a category of the filter the result is empty.
IndexedSources ==
    {SourceOf(chunk) : chunk \in Range(vectorstore.docs)
                                \cup Range(documents_for_bm25)}

C2_FilterCorrect ==
    (query.pc = "done" /\ query.sources # {}) =>
        /\ \A i \in 1..Len(query.docs) :
                SourceOf(query.docs[i]) \in query.sources
        /\ (IndexedSources \cap query.sources = {}) => query.docs = <<>>

\* a search filtered to news, over an index that holds chunks of both
\* categories, that returns documents
C2_Witness ==
    /\ query.pc = "done"
    /\ query.sources = {"news"}
    /\ IndexedSources = {"news", "faq"}
    /\ query.docs # <<>>

\* the chunks that both the vector store and the BM25 document list hold
IndexChunks == Range(vectorstore.docs) \cap Range(documents_for_bm25)

\* C3: after a refresh cycle that went through its build, in which the
\* acquisition of a category A failed (load_content returned nothing, or
\* the sitemap had no entry for A) and that of a category B succeeded, the
\* index holds the chunks of B's new documents and still holds the chunks
\* of A that the last cycle to acquire A indexed.
C3_GracefulDegradation ==
    hist.lastBuild = "ok" =>
        \A A \in KnowledgeSource, B \in KnowledgeSource :
            (/\ hist.acquired[A].status \in {"failed", "skipped"}
             /\ hist.acquired[B].status = "loaded") =>
                /\ Range(SplitDocuments(hist.acquired[B].documents))
                        \subseteq IndexChunks
                /\ hist.lastGood[A] \subseteq IndexChunks

\* news was indexed before, its acquisition fails in this cycle, faq is
\* acquired, and the build is through
C3_Witness ==
    /\ hist.lastBuild = "ok"
    /\ hist.acquired["news"].status = "failed"
    /\ hist.acquired["faq"].status = "loaded"
    /\ hist.lastGood["news"] # {}

\* C4: after every build that succeeds, the BM25 index and the vector index
\* hold the same set of chunks, and the BM25 document list is the corpus
\* the BM25 index scores.
C4_IndexConsistency ==
    hist.lastBuild = "ok" =>
        /\ ~vectorstore.none
        /\ ~bm25_index.none
        /\ Range(bm25_index.docs) = Range(vectorstore.docs)
        /\ documents_for_bm25 = bm25_index.docs

\* a build of more than one batch that extended a loaded snapshot
C4_Witness ==
    /\ hist.lastBuild = "ok"
    /\ hist.loaded
    /\ Len(vectorstore.docs) > batch_size + Len(hist.diskAtStart.pkl.docs)

\* C5: query answers "not initialized" exactly when the engine is not
\* ready, the error sentinel exactly when a search raised, "no information"
\* when the search ran and matched nothing, and the documents otherwise.
C5_ThreeAnswers ==
    (query.pc = "done" /\ query.answer # "initializing") =>
        query.answer = IF ~query.ready THEN "not_initialized"
                       ELSE IF query.fault THEN "error"
                       ELSE IF query.docs = <<>> THEN "no_information"
                       ELSE "documents"

\* C6: when the embedding of a batch fails, the build leaves the snapshot
\* it found unchanged, in memory and on disk, and no chunk of a batch it
\* embedded before is in the live index.
C6_FailedBuildLeavesSnapshot ==
    hist.lastBuild = "failed" =>
        /\ vectorstore = hist.before.vectorstore
        /\ bm25_index = hist.before.bm25_index
        /\ documents_for_bm25 = hist.before.documents_for_bm25
        /\ disk = hist.before.disk
        /\ hist.embedded \cap Range(vectorstore.docs) = {}

\* C7: after a refresh cycle in which no category was acquired, the index
\* is not empty: it holds at least a default corpus.
C7_NeverEmpty ==
    hist.lastBuild = "empty" =>
        /\ ~vectorstore.none
        /\ vectorstore.docs # <<>>

\* C8: when the process started with a loadable snapshot in
\* vectorstore_dir, vectorstore_dir holds a loadable snapshot at every
\* later point, a crash included.
C8_SnapshotSurvives ==
    Loadable(hist.diskAtStart) => Loadable(disk)

\* C9: the lifecycle takes only the transitions of the state machine, for
\* as long as the process lives; a refresh in flight, or a monitor that
\* can start one, after shutdown is none of its states.
LifecycleTransitions ==
    {<<"UNINITIALIZED", "LOADING">>, <<"LOADING", "READY">>,
     <<"LOADING", "REFRESHING">>, <<"READY", "REFRESHING">>,
     <<"REFRESHING", "READY">>, <<"SHUTTING_DOWN", "STOPPED">>}
        \cup {<<from, "SHUTTING_DOWN">> :
                from \in {"UNINITIALIZED", "LOADING", "READY", "REFRESHING"}}

C9_Lifecycle ==
    [][crashed' = crashed =>
        \/ LifecycleState' = LifecycleState
        \/ <<LifecycleState, LifecycleState'>> \in LifecycleTransitions]_vars

\* shutdown stopped a service whose monitor had refreshed the index
C9_Witness ==
    /\ LifecycleState = "STOPPED"
    /\ monPc = "cancelled"
    /\ cycles = MaxCycles
    /\ hist.lastBuild = "ok"

\* C10: once the persisted snapshot is loaded, a message is answered from
\* the index, before the first refresh ends and whatever it acquires: the
\* loaded snapshot has chunks of every category the tools filter on.
C10_ServesLoadedSnapshot ==
    (query.loaded /\ query.pc = "done" /\ ~query.fault) =>
        query.answer = "documents"

\* C11: when no persisted snapshot was loaded at startup, every message
\* that is answered before a first build has completed gets a not-ready
\* answer (the webhook's "initializing" or query's "not initialized"),
\* never "no information".  No build has completed while there is no BM25
\* index.
C11_NotReadyBeforeFirstBuild ==
    (query.pc = "done" /\ ~hist.loaded /\ bm25_index.none) =>
        query.answer \in {"initializing", "not_initialized"}

\* C12: on a start without a persisted snapshot in which the refresh
\* acquires nothing, the service does not get ready: the init task does
\* not end as done, after which the webhook serves and /health says
\* "ready".
C12_NoIndexNotReady ==
    (~hist.loaded /\ hist.lastBuild = "empty" /\ vectorstore.none) =>
        initPc # "done"

\* C13: at most one update_knowledge_bases is in flight at any time.
C13_SingleRefresh == Cardinality(RefreshesInFlight) <= 1

\* the monitor's refresh is in flight while the init task has not ended
C13_Witness ==
    /\ RefreshesInFlight = {"monitor"}
    /\ refresh.pc = "await_load"
    /\ initPc = "sleep"

\* C14: once shutdown has returned, whatever the engine was doing when it
\* was called, no refresh is running and no task is left that could start
\* one.
C14_ShutdownStopsRefresh ==
    shutPc = "done" =>
        /\ ~RefreshInFlight
        /\ RefreshesInFlight = {}
        /\ monPc \in {"none", "cancelled"}
        /\ initPc \in {"done", "cancelled"}

\* shutdown was called during the refresh of initialize, while it awaited
\* the news page
C14_Witness ==
    /\ shutPc = "done"
    /\ initPc = "cancelled"
    /\ monPc = "none"
    /\ hist.acquired["news"].status = "pending"

\* a refresh cycle that was cancelled: a category is still waiting to be
\* acquired and no refresh is in flight
CancelledCycle ==
    /\ ~RefreshInFlight
    /\ \E source \in KnowledgeSource :
            hist.acquired[source].status = "pending"

\* C15: a cycle goes on only while the task it runs in is not cancelled,
\* and a cycle cancelled while it goes over the categories acquires no
\* further category and builds nothing.
C15_CancelledBetweenAcquisitions ==
    /\ RefreshInFlight => RefreshesInFlight = {refresh.owner}
    /\ CancelledCycle => hist.lastBuild = "none"

\* the cancellation came after news was acquired, while faq was awaited
C15_Witness ==
    /\ CancelledCycle
    /\ hist.acquired["news"].status = "loaded"
    /\ hist.acquired["faq"].status = "pending"

\* C16: a source that does not answer cannot stall a refresh: every
\* refresh that is in flight eventually completes.
C16_RefreshCompletes == RefreshInFlight ~> ~RefreshInFlight

\* the merge with candidates told apart by chunk identity: every candidate
\* once, in the order given
RECURSIVE AddDistinct(_, _)
AddDistinct(combined, results) ==
    IF results = <<>> THEN combined
    ELSE IF Head(results) \in Range(combined)
         THEN AddDistinct(combined, Tail(results))
         ELSE AddDistinct(Append(combined, Head(results)), Tail(results))

\* C17: the result of hybrid_search is the BM25 candidates in score order,
\* followed by the dense candidates that are not among them in similarity
\* order, each chunk once, cut to k.
C17_LexicalPrecedence ==
    (query.pc = "done" /\ query.searched /\ ~query.fault) =>
        query.docs = Take(AddDistinct(AddDistinct(<<>>, query.lexical),
                                      query.dense),
                          query.k)

\* a stable sort by timestamp, newest first
RECURSIVE InsertByRecency(_, _)
InsertByRecency(sorted, doc) ==
    IF sorted = <<>> THEN <<doc>>
    ELSE IF Timestamp(Head(sorted)) >= Timestamp(doc)
         THEN <<Head(sorted)>> \o InsertByRecency(Tail(sorted), doc)
         ELSE <<doc>> \o sorted

RECURSIVE SortByRecency(_)
SortByRecency(seq) ==
    IF seq = <<>> THEN <<>>
    ELSE InsertByRecency(SortByRecency(SubSeq(seq, 1, Len(seq) - 1)),
                         seq[Len(seq)])

\* C18: when the filter has the news category, the merged candidates are
\* sorted by timestamp, newest first, before they are cut to k; candidates
\* of equal timestamp keep their order.
C18_RecencySort ==
    (query.pc = "done" /\ query.searched /\ ~query.fault
        /\ "news" \in query.sources) =>
        query.docs = Take(SortByRecency(AddUnique(AddUnique(<<>>, query.lexical),
                                                  query.dense)),
                          query.k)

\* C19: a query returns at most k documents, from hybrid_search and from
\* CabalKnowledgeSystem.query.
C19_AtMostK ==
    query.pc = "done" =>
        /\ Len(query.docs) <= query.k
        /\ Len(query.cabal) <= query.k

\* both queries had more than k candidates and returned k
C19_Witness ==
    /\ query.pc = "done"
    /\ Len(AddUnique(AddUnique(<<>>, query.lexical), query.dense)) > query.k
    /\ Len(query.docs) = query.k
    /\ IndexedSources = {"news", "faq"}
    /\ query.sources = {}
    /\ Len(query.cabal) = query.k

\* C20: every build embeds in batches: no call to the embedding provider
\* carries more than batch_size chunks, in create_knowledge_base and in
\* CabalKnowledgeSystem._update_source.
C20_BatchedEmbedding ==
    /\ refresh.pc = "build" =>
            Len(Batch(refresh.splits, refresh.done)) <= batch_size
    /\ \A j \in 1..Len(cabal.calls) : cabal.calls[j] <= batch_size

ChunkLen(chunk) == chunk.page_content[2] - chunk.page_content[1] + 1

\* C21: no chunk the chunker makes of a document has more than chunk_size
\* characters: text without a boundary within the budget is cut.
C21_ChunkSize ==
    chunker.pc = "done" =>
        \A n \in 1..Len(chunker.chunks) :
            ChunkLen(chunker.chunks[n]) <= chunk_size

\* the overlap with its predecessor a chunk declares: the chunks carry the
\* text and the document's metadata, and no overlap
DeclaredOverlap(chunk) ==
    IF "overlap_with_predecessor" \in chunk.metadata
    THEN chunk_overlap ELSE 0

\* the positions of the text that hold the newlines between sentences
LineBreaks(text) ==
    UNION {LET from == TextLen(text, 1, k - 1)
           IN  IF text[k].sep \in {"paragraph", "line"}
               THEN (from + 1)..(from + SeparatorLen(text[k].sep)) ELSE {} :
           k \in 1..Len(text)}

\* C22: the chunks of a document, in order and with the overlaps they
\* declare removed, make up the text of the document, white space between
\* chunks aside: nothing is left out and nothing comes twice.
C22_ChunkCoverage ==
    chunker.pc = "done" =>
        LET chunks == chunker.chunks
            text == chunker.text
        IN  /\ chunks # <<>>
            /\ chunks[1].page_content[1] = 1
            /\ chunks[Len(chunks)].page_content[2] = TextLen(text, 1, Len(text))
            /\ \A n \in 2..Len(chunks) :
                LET resumed == chunks[n].page_content[1]
                                + DeclaredOverlap(chunks[n])
                    last == chunks[n - 1].page_content[2]
                IN  /\ resumed > last
                    /\ (last + 1)..(resumed - 1) \subseteq LineBreaks(text)

\* what an index entry holds apart from the time of its acquisition
EntryContent(chunk) == <<chunk[1], chunk[2], chunk[3]>>

EntriesOfCycle(cycle) ==
    {chunk \in Range(vectorstore.docs) : Timestamp(chunk) = cycle}

\* C23: when a refresh has acquired and indexed the same content as the
\* refresh before it, whose entries were all the index held, the index
\* holds that content once, as it did after the first of the two.
C23_IdempotentReindex ==
    (/\ hist.lastBuild = "ok"
     /\ cycles >= 2
     /\ \A chunk \in Range(vectorstore.docs) :
            Timestamp(chunk) \in {cycles - 1, cycles}
     /\ EntriesOfCycle(cycles) # {}
     /\ {EntryContent(chunk) : chunk \in EntriesOfCycle(cycles)}
            = {EntryContent(chunk) : chunk \in EntriesOfCycle(cycles - 1)}) =>
        Len(vectorstore.docs) = Cardinality(EntriesOfCycle(cycles))

\* a step in which create_knowledge_base is called without documents
EmptyBuildStep ==
    /\ hist'.lastBuild = "empty"
    /\ \/ cycles' = cycles + 1
       \/ refresh.pc = "await_load" /\ refresh'.pc = "idle"

\* C24: create_knowledge_base called without documents leaves the vector
\* index, the BM25 index, the chunk list and the files of the snapshot as
\* they were, and with them the answer to every query.
C24_EmptyExtend ==
    [][EmptyBuildStep =>
        /\ vectorstore' = vectorstore
        /\ bm25_index' = bm25_index
        /\ documents_for_bm25' = documents_for_bm25
        /\ disk' = disk]_vars

\* a cycle that acquired nothing is through, over an index that a build
\* of this run has made
C24_Witness ==
    /\ hist.lastBuild = "empty"
    /\ cycles = 2
    /\ ~bm25_index.none
    /\ vectorstore.docs # <<>>

\* vectorstore_dir held a snapshot that load_local cannot read when the
\* process started
UnreadableAtStart ==
    /\ hist.diskAtStart # [faiss |-> AbsentFile, pkl |-> AbsentFile]
    /\ ~Loadable(hist.diskAtStart)

\* C25: a persisted snapshot that cannot be read at load is dropped and
\* initialize goes on: nothing of it is in the index, the refresh of
\* initialize is the next step, and the build it leads to leaves a
\* snapshot of what it acquired, in memory and in vectorstore_dir.
C25_UnreadableSnapshotRecovered ==
    UnreadableAtStart =>
        /\ ~hist.loaded
        /\ initPc = "loaded" => vectorstore.none
        /\ \A chunk \in Range(vectorstore.docs) : Timestamp(chunk) >= 1
        /\ (initPc = "loaded" /\ ~crashed) => ENABLED InitializeUpdate
        /\ hist.lastBuild = "ok" =>
                /\ ~vectorstore.none
                /\ Loadable(disk)
                /\ disk.pkl.docs = vectorstore.docs

\* the start found an unreadable snapshot, initialize is through and its
\* refresh has built the index
C25_Witness ==
    /\ UnreadableAtStart
    /\ initPc = "done"
    /\ cycles = 1
    /\ hist.lastBuild = "ok"

\* the power partitions and the class_abbr a tool asks each with
PartitionAbbrs == {<<0, None>>} \cup
    {<<class_id, lower(CLASS_MAPPING[class_id])>> :
        class_id \in 1..Len(CLASS_MAPPING)}

\* C27: when a ranking with entries was saved for a ranking type and a
\* partition, a query for that type and partition reads a file that the
\* save wrote and answers with its entries.
C27_QueryReadsSavedFile ==
    rankings.pc = "answered" =>
        \A partition \in PartitionAbbrs :
            (/\ rankings.asked = <<rankings.asked[1], partition[2]>>
             /\ <<rankings.asked[1], partition[1]>> \in rankings.saved) =>
                rankings.response # <<>>

\* refresh cycle n is through and has failed: the build raised, nothing
\* was acquired, or the load of a category failed
FailedCycle(n) ==
    /\ cycles = n
    /\ refresh = IdleRefresh
    /\ \/ hist.lastBuild \in {"failed", "empty"}
       \/ \E source \in KnowledgeSource :
            hist.acquired[source].status = "failed"

\* C26: a failure of one refresh cycle, source or ranking type does not
\* stop the engine: after a failed cycle the monitor task is alive and a
\* next cycle starts, and after a source or a ranking type has raised in
\* initialize every other one is still attempted.
C26_FailuresDoNotStop ==
    /\ [](\A n \in 1..MaxCycles :
            FailedCycle(n) => monPc \in {"sleep", "update"} /\ ~crashed)
    /\ \A n \in 1..(MaxCycles - 1) : FailedCycle(n) ~> cycles > n
    /\ [](rankings.pc \in {"done", "answered"} =>
            rankings.processed = Range(RankingTypes))
    /\ \A ranking_type \in Range(RankingTypes) :
            (ranking_type \in rankings.raised) ~>
                (rankings.processed = Range(RankingTypes))
    /\ [](cabal.i > Len(CabalSources) => cabal.tried = CabalSource)
    /\ \A source \in CabalSource :
            (source \in cabal.raised) ~> (cabal.tried = CabalSource)

\* the cycle of the monitor failed in its build and the monitor sleeps
\* again
C26_Witness ==
    /\ FailedCycle(2)
    /\ hist.lastBuild = "failed"
    /\ monPc = "sleep"

\* C28: CabalKnowledgeSystem.initialize terminates by a bound of its own:
\* for each source the chain of fallbacks between _update_source and
\* _load_source ends before the interpreter's recursion limit ends it.
C28_BoundedFallback == cabal.depth < RecursionLimit

\* C29: in every refresh cycle, a failed sitemap fetch included, the URLs
\* registered for a category are among the URLs acquired for it: a
\* category with a manual URL is never skipped.
C29_ManualUrlsAcquired ==
    cycles >= 1 =>
        \A source \in KnowledgeSource :
            HasManualUrl(source) => hist.acquired[source].status # "skipped"

\* C30: a ranking file is only ever overwritten with entries: a refresh
\* that fails or parses nothing leaves every file as it was.
C30_RankingFilesKept ==
    \A path \in RankingPaths :
        (/\ rankings.prior[path].rankings > 0
         /\ rankings.files[path] # rankings.prior[path]) =>
            rankings.files[path].rankings > 0

==========================================================================
